---- MODULE Spec2Model ----
(***************************************************************************)
(* Task lifecycle engine of SoraWatermarkCleaner: WMRemoveTaskWorker       *)
(* (src/sorawm/server/worker.py) with its asyncio queue, the job records   *)
(* it updates, the progress coroutines scheduled from the processing        *)
(* thread, the local temporary files and the GCS bucket                     *)
(* (src/sorawm/iopaint/file_manager/storage_backends.py).                   *)
(*                                                                         *)
(* Python strings are sequences of one-character strings; pathlib paths     *)
(* are records [root, parts] as PurePosixPath parses them.                  *)
(***************************************************************************)
EXTENDS Integers, Sequences, FiniteSets, TLC

(***************************************************************************)
(* Bounds of the model.                                                    *)
(***************************************************************************)
MaxJobs == 2
MaxEnq == 2
MaxReports == 2

(***************************************************************************)
(* Strings and pathlib.                                                    *)
(***************************************************************************)
None == <<"None">>

SLASH == "/"

DOT == "."

RECURSIVE LStripSlash(_)
LStripSlash(s) ==
    IF s # <<>> /\ Head(s) = SLASH THEN LStripSlash(Tail(s)) ELSE s

\* The components of s between slashes, empty ones included.
RECURSIVE SplitSlash(_, _)
SplitSlash(s, acc) ==
    IF s = <<>> THEN <<acc>>
    ELSE IF Head(s) = SLASH THEN <<acc>> \o SplitSlash(Tail(s), <<>>)
    ELSE SplitSlash(Tail(s), Append(acc, Head(s)))

RECURSIVE KeepParts(_)
KeepParts(cs) ==
    IF cs = <<>> THEN <<>>
    ELSE IF Head(cs) = <<>> \/ Head(cs) = <<DOT>> THEN KeepParts(Tail(cs))
    ELSE <<Head(cs)>> \o KeepParts(Tail(cs))

\* The root PurePosixPath keeps: "//" for exactly two leading slashes, "/" for
\* one or for three and more, "" for a relative path.
PathRoot(s) ==
    LET n == Len(s) - Len(LStripSlash(s))
    IN  IF n = 0 THEN <<>> ELSE IF n = 2 THEN <<SLASH, SLASH>> ELSE <<SLASH>>

PathOf(s) == [root |-> PathRoot(s), parts |-> KeepParts(SplitSlash(s, <<>>))]

RECURSIVE JoinSlash(_)
JoinSlash(cs) ==
    IF cs = <<>> THEN <<>>
    ELSE IF Len(cs) = 1 THEN Head(cs)
    ELSE Head(cs) \o <<SLASH>> \o JoinSlash(Tail(cs))

PathStr(p) ==
    IF p.root = <<>> /\ p.parts = <<>> THEN <<DOT>>
    ELSE p.root \o JoinSlash(p.parts)

PathName(p) == IF p.parts = <<>> THEN <<>> ELSE p.parts[Len(p.parts)]

\* Position of the last dot of a name, 0 when it has none.
LastDot(name) ==
    LET ds == {i \in 1..Len(name) : name[i] = DOT}
    IN  IF ds = {} THEN 0 ELSE CHOOSE i \in ds : \A k \in ds : k <= i

PathSuffix(p) ==
    LET name == PathName(p)
        i == LastDot(name)
    IN  IF 1 < i /\ i < Len(name) THEN SubSeq(name, i, Len(name)) ELSE <<>>

\* p / s for a path p and a string s.
PathJoin(p, s) ==
    IF s # <<>> /\ Head(s) = SLASH THEN PathOf(s)
    ELSE PathOf(PathStr(p) \o <<SLASH>> \o s)

PathParent(p) ==
    IF p.parts = <<>> THEN p
    ELSE [root |-> p.root, parts |-> SubSeq(p.parts, 1, Len(p.parts) - 1)]

NoPath == [root |-> None, parts |-> <<>>]

(***************************************************************************)
(* Configuration (src/sorawm/configs.py); directory names are shortened.   *)
(***************************************************************************)
ROOT == PathOf(<<"/", "r">>)

WORKING_DIR == PathJoin(ROOT, <<"w">>)

\* The default of GCS_UPLOADS_PREFIX, and values the environment may set.
GCS_UPLOADS_PREFIX == <<"u", "p">>

UploadPrefixes ==
    {GCS_UPLOADS_PREFIX, <<"u", "p", SLASH>>, <<DOT, SLASH, "u">>, <<SLASH, "u">>, <<>>}

GCS_OUTPUTS_PREFIX == <<"o", "u", "t">>

output_dir == WORKING_DIR

upload_dir == PathJoin(WORKING_DIR, <<"u", "p">>)

(***************************************************************************)
(* Inputs.                                                                 *)
(***************************************************************************)
UuidChars == <<"a", "b", "c", "d">>

Uuid(n) == <<UuidChars[n]>>

TaskIds == 1..MaxJobs

\* The path a caller hands to queue_task for a job: the upload of an odd job
\* has a suffix, that of an even job has none.
VideoPaths(task_id) ==
    IF task_id % 2 = 1 THEN {PathOf(<<"/", "v", "/", "x", ".", "m">>)}
    ELSE {PathOf(<<"y">>)}

\* datetime.now().strftime("%Y%m%d%H%M%S"), one character per instant.
Timestamps == {<<"7">>}

\* Percentages the processing operation reports.
Percents == {30, 60}

\* The bytes of an uploaded video and of a processed one.
video_data == <<"0">>

output_data == <<"1">>

Statuses == {"UPLOADING", "PROCESSING", "FINISHED", "ERROR"}

Terminal == {"FINISHED", "ERROR"}

VARIABLES
    use_gcs,            \* self.use_gcs
    gcs_uploads_prefix, \* GCS_UPLOADS_PREFIX as read from the environment
    tasks,              \* the Task table: job id -> record
    nextId,             \* the next uuid4
    queue,              \* self.queue: handles [id, path]
    unfinished,         \* the queue's count of entries not yet task_done
    bucket,             \* the GCS bucket: blob name -> bytes
    files,              \* local files that exist, among those the worker makes
    wpc,                \* where run() is
    cur,                \* (task_uuid, video_path) of the job in flight
    local_input_path,
    local_output_path,
    output_filename,
    final_output_path,
    raising,            \* an exception is leaving the except block
    lastrep,            \* the last percentage the processing call reported
    pending,            \* _update_progress coroutines scheduled, in callback order
    nrep,               \* history: progress callbacks made so far
    applied,            \* history: per job, the latest callback whose update was written
    enqLog,             \* history: every queue_task that enqueued
    ndeq,               \* history: how many handles the worker has dequeued
    cause,              \* history: what raised in the current run
    backendUsed,        \* history: a storage_backend method has been called
    unlinkFailed,       \* history: files whose last deletion attempt raised
    ret,                \* what the last direct call of a caller returned
    wrote               \* history: the last record write of the latest iteration of run()

dbVars == <<tasks, nextId>>

queueVars == <<queue, unfinished, enqLog, ndeq>>

storeVars == <<bucket, files, backendUsed, unlinkFailed>>

runVars ==
    <<wpc, cur, local_input_path, local_output_path, output_filename,
      final_output_path, raising, cause>>

progVars == <<lastrep, pending, nrep, applied>>

vars == <<use_gcs, gcs_uploads_prefix, dbVars, queueVars, storeVars, runVars, progVars, ret, wrote>>

NoHandle == [id |-> 0, path |-> NoPath]

\* An empty bucket: blob name -> bytes.
EmptyBucket == [n \in {} |-> <<>>]

NoRet == [op |-> "none", arg |-> <<>>, data |-> None, val |-> None]

\* The worker as constructed, whatever the configuration.
Constructed ==
    /\ use_gcs \in BOOLEAN
    /\ tasks = <<>>
    /\ nextId = 1
    /\ queue = <<>>
    /\ unfinished = 0
    /\ bucket = EmptyBucket
    /\ files = {}
    /\ wpc = "get"
    /\ cur = NoHandle
    /\ local_input_path = NoPath
    /\ local_output_path = NoPath
    /\ output_filename = None
    /\ final_output_path = None
    /\ raising = FALSE
    /\ lastrep = 0
    /\ pending = <<>>
    /\ nrep = 0
    /\ applied = [j \in TaskIds |-> 0]
    /\ enqLog = <<>>
    /\ ndeq = 0
    /\ cause = "none"
    /\ backendUsed = FALSE
    /\ unlinkFailed = {}
    /\ ret = NoRet
    /\ wrote = "none"

\* The default upload prefix.
Init ==
    /\ gcs_uploads_prefix = GCS_UPLOADS_PREFIX
    /\ Constructed

\* Any upload prefix.
ConfigInit ==
    /\ gcs_uploads_prefix \in UploadPrefixes
    /\ Constructed

(***************************************************************************)
(* GCSStorageBackend.                                                      *)
(***************************************************************************)
BlobName(filepath) == LStripSlash(filepath)

\* save: blob.upload_from_string(data) creates the blob or replaces its bytes.
GcsSave(b, filepath, data) ==
    [n \in DOMAIN b \cup {BlobName(filepath)} |->
        IF n = BlobName(filepath) THEN data ELSE b[n]]

GcsExists(b, filepath) == BlobName(filepath) \in DOMAIN b

\* The FileNotFoundError read raises.
NotFound == <<"FileNotFoundError">>

True == <<"True">>

False == <<"False">>

\* A read that looks the reference up as it is given.
GcsReadNoStrip(b, filepath) ==
    IF filepath \in DOMAIN b THEN b[filepath] ELSE NotFound

GcsRead(b, filepath) ==
    IF BlobName(filepath) \in DOMAIN b THEN b[BlobName(filepath)] ELSE NotFound

\* delete: blob.delete() only when blob.exists().
GcsDelete(b, filepath) ==
    IF BlobName(filepath) \in DOMAIN b
    THEN [n \in DOMAIN b \ {BlobName(filepath)} |-> b[n]]
    ELSE b

\* References and byte strings a caller hands to the backend.
Refs == {<<"k">>, <<SLASH, "k">>, <<SLASH, SLASH, "k">>, <<"a", SLASH, "k">>,
         <<SLASH, "a", SLASH, "k">>}

Datas == {<<>>, <<"0">>, <<"1">>}

BackendSave(R, B) ==
    /\ use_gcs
    /\ bucket' = GcsSave(bucket, R, B)
    /\ ret' = [op |-> "save", arg |-> R, data |-> B, val |-> None]
    /\ UNCHANGED <<use_gcs, gcs_uploads_prefix, wrote, dbVars, queueVars, files, backendUsed, unlinkFailed,
                   runVars, progVars>>

BackendRead(R) ==
    /\ use_gcs
    /\ ret' = [op |-> "read", arg |-> R, data |-> None, val |-> GcsRead(bucket, R)]
    /\ UNCHANGED <<use_gcs, gcs_uploads_prefix, wrote, dbVars, queueVars, storeVars, runVars, progVars>>

BackendExists(R) ==
    /\ use_gcs
    /\ ret' = [op |-> "exists", arg |-> R, data |-> None,
               val |-> IF GcsExists(bucket, R) THEN True ELSE False]
    /\ UNCHANGED <<use_gcs, gcs_uploads_prefix, wrote, dbVars, queueVars, storeVars, runVars, progVars>>

BackendDelete(R) ==
    /\ use_gcs
    /\ bucket' = GcsDelete(bucket, R)
    /\ ret' = [op |-> "delete", arg |-> R, data |-> None, val |-> None]
    /\ UNCHANGED <<use_gcs, gcs_uploads_prefix, wrote, dbVars, queueVars, files, backendUsed, unlinkFailed,
                   runVars, progVars>>

\* A caller using the remote backend directly, in any order.
StorageNext ==
    \/ \E R \in Refs : \E B \in Datas : BackendSave(R, B)
    \/ \E R \in Refs : BackendRead(R)
    \/ \E R \in Refs : BackendExists(R)
    \/ \E R \in Refs : BackendDelete(R)

StorageSpec == Init /\ [][StorageNext]_vars

(***************************************************************************)
(* create_task, queue_task, mark_task_error.                               *)
(***************************************************************************)
NewTask ==
    [status |-> "UPLOADING", percentage |-> 0, video_path |-> <<>>,
     output_path |-> None, download_url |-> None]

CreateTask ==
    /\ nextId <= MaxJobs
    /\ tasks' = tasks @@ (nextId :> NewTask)
    /\ nextId' = nextId + 1
    /\ UNCHANGED <<use_gcs, gcs_uploads_prefix, wrote, ret, queueVars, storeVars, runVars, progVars>>

UploadKey(task_id, video_path) ==
    gcs_uploads_prefix \o <<SLASH>> \o Uuid(task_id) \o <<"_">> \o PathName(video_path)

\* A queue_task that takes the remote branch whatever the mode.
StoragePathAlwaysRemote(gcs, task_id, video_path) ==
    PathOf(UploadKey(task_id, video_path))

StoragePath(gcs, task_id, video_path) ==
    IF gcs THEN PathOf(UploadKey(task_id, video_path)) ELSE video_path

\* A queue that puts new entries at its head.
QueuePutFront(q, h) == <<h>> \o q

QueuePut(q, h) == Append(q, h)

\* queue_task: the upload (remote mode), the record update and the enqueue.
\* A call that raises enqueues nothing and leaves every record as it was; the
\* blob it may have uploaded before raising is one no handle refers to.
QueueTask(task_id, video_path) ==
    LET storage_path == StoragePath(use_gcs, task_id, video_path)
    IN  /\ Len(enqLog) < MaxEnq
        /\ task_id \in DOMAIN tasks
        /\ bucket' = IF use_gcs THEN GcsSave(bucket, UploadKey(task_id, video_path), video_data)
                     ELSE bucket
        /\ backendUsed' = (backendUsed \/ use_gcs)
        /\ tasks' = [tasks EXCEPT ![task_id].video_path = PathStr(storage_path),
                                  ![task_id].status = "PROCESSING",
                                  ![task_id].percentage = 0]
        /\ queue' = QueuePut(queue, [id |-> task_id, path |-> storage_path])
        /\ unfinished' = unfinished + 1
        /\ enqLog' = Append(enqLog,
                            [id |-> task_id, arg |-> video_path, path |-> storage_path])
        /\ UNCHANGED <<use_gcs, gcs_uploads_prefix, wrote, ret, nextId, ndeq, files, unlinkFailed, runVars, progVars>>

MarkTaskError(task_id) ==
    /\ task_id \in DOMAIN tasks
    /\ tasks' = [tasks EXCEPT ![task_id].status = "ERROR",
                              ![task_id].percentage = 0]
    /\ UNCHANGED <<use_gcs, gcs_uploads_prefix, wrote, ret, nextId, queueVars, storeVars, runVars, progVars>>

(***************************************************************************)
(* run(): one step per awaited operation of the loop body.                 *)
(***************************************************************************)
TempInputPath(h) ==
    PathJoin(upload_dir, <<"t", "e", "m", "p", "_">> \o Uuid(h.id) \o PathSuffix(h.path))

OutputFilename(h, timestamp) ==
    Uuid(h.id) \o <<"_">> \o timestamp \o PathSuffix(h.path)

QueueHead(q) == Head(q)

\* A loop that takes the next handle as soon as the job's record is settled,
\* before the finally clause has run.
WorkerGetBeforeTaskDone ==
    /\ wpc \in {"get", "finally"}
    /\ queue # <<>>
    /\ cur' = QueueHead(queue)
    /\ queue' = Tail(queue)
    /\ ndeq' = ndeq + 1
    /\ local_input_path' = NoPath
    /\ local_output_path' = NoPath
    /\ wrote' = "none"
    /\ wpc' = "stage_in"
    /\ UNCHANGED <<use_gcs, gcs_uploads_prefix, ret, dbVars, unfinished, enqLog, storeVars,
                   output_filename, final_output_path, raising, cause, progVars>>

\* task_uuid, video_path = await self.queue.get()
WorkerGet ==
    /\ wpc = "get"
    /\ queue # <<>>
    /\ cur' = QueueHead(queue)
    /\ queue' = Tail(queue)
    /\ ndeq' = ndeq + 1
    /\ local_input_path' = NoPath
    /\ local_output_path' = NoPath
    /\ wrote' = "none"
    /\ wpc' = "stage_in"
    /\ UNCHANGED <<use_gcs, gcs_uploads_prefix, ret, dbVars, unfinished, enqLog, storeVars,
                   output_filename, final_output_path, raising, cause, progVars>>

\* Lines 109-123 without an exception: the input is downloaded to the local
\* temporary path (remote mode) or used as it is, and the output path is named.
StageInOk ==
    /\ wpc = "stage_in"
    /\ \E ts \in Timestamps :
          /\ output_filename' = OutputFilename(cur, ts)
          /\ local_output_path' = PathJoin(output_dir, OutputFilename(cur, ts))
    /\ IF use_gcs
       THEN /\ GcsExists(bucket, PathStr(cur.path))
            /\ local_input_path' = TempInputPath(cur)
            /\ files' = files \cup {TempInputPath(cur)}
            /\ backendUsed' = TRUE
       ELSE /\ local_input_path' = cur.path
            /\ UNCHANGED <<files, backendUsed>>
    /\ wpc' = "start"
    /\ UNCHANGED <<use_gcs, gcs_uploads_prefix, wrote, ret, dbVars, queueVars, bucket, unlinkFailed, cur,
                   final_output_path, raising, cause, progVars>>

\* Remote mode: storage_backend.read raises (no such blob, or the transfer
\* fails), or write_bytes raises and may leave the temporary file behind.
StageInFail ==
    /\ wpc = "stage_in"
    /\ use_gcs
    /\ local_input_path' = TempInputPath(cur)
    /\ backendUsed' = TRUE
    /\ \E left \in BOOLEAN :
          /\ left => GcsExists(bucket, PathStr(cur.path))
          /\ files' = IF left THEN files \cup {TempInputPath(cur)} ELSE files
    /\ cause' = "stage_in"
    /\ wpc' = "except"
    /\ UNCHANGED <<use_gcs, gcs_uploads_prefix, wrote, ret, dbVars, queueVars, bucket, unlinkFailed, cur,
                   local_output_path, output_filename, final_output_path,
                   raising, progVars>>

\* Lines 125-131: the record is set to PROCESSING, 10; the processing call
\* starts on its thread.
StartWrite ==
    /\ wpc = "start"
    /\ tasks' = [tasks EXCEPT ![cur.id].status = "PROCESSING",
                              ![cur.id].percentage = 10]
    /\ lastrep' = 0
    /\ wrote' = "start"
    /\ wpc' = "process"
    /\ UNCHANGED <<use_gcs, gcs_uploads_prefix, ret, nextId, queueVars, storeVars, cur, local_input_path,
                   local_output_path, output_filename, final_output_path,
                   raising, cause, pending, nrep, applied>>

\* The session of lines 125-131 raises.
StartWriteFail ==
    /\ wpc = "start"
    /\ cause' = "db"
    /\ wpc' = "except"
    /\ UNCHANGED <<use_gcs, gcs_uploads_prefix, wrote, ret, dbVars, queueVars, storeVars, cur, local_input_path,
                   local_output_path, output_filename, final_output_path,
                   raising, progVars>>

(***************************************************************************)
(* The processing thread (sora_wm.run) and its progress callback.          *)
(***************************************************************************)
\* progress_callback(percentage): run_coroutine_threadsafe schedules
\* _update_progress(task_uuid, percentage) on the loop.  The processing
\* operation reports non-decreasing percentages.
Report(p) ==
    /\ wpc = "process"
    /\ nrep < MaxReports
    /\ p >= lastrep
    /\ pending' = Append(pending, [id |-> cur.id, pct |-> p, seq |-> nrep + 1])
    /\ nrep' = nrep + 1
    /\ lastrep' = p
    /\ UNCHANGED <<use_gcs, gcs_uploads_prefix, wrote, ret, applied, dbVars, queueVars, storeVars, runVars>>

\* sora_wm.run returns: the output file is written.
ProcReturn ==
    /\ wpc = "process"
    /\ files' = files \cup {local_output_path}
    /\ wpc' = "stage_out"
    /\ UNCHANGED <<use_gcs, gcs_uploads_prefix, wrote, ret, dbVars, queueVars, bucket, backendUsed, unlinkFailed,
                   cur, local_input_path, local_output_path, output_filename,
                   final_output_path, raising, cause, progVars>>

\* sora_wm.run raises; a partly written output file may be left.
ProcRaise ==
    /\ wpc = "process"
    /\ \E left \in BOOLEAN :
          files' = IF left THEN files \cup {local_output_path} ELSE files
    /\ cause' = "process"
    /\ wpc' = "except"
    /\ UNCHANGED <<use_gcs, gcs_uploads_prefix, wrote, ret, dbVars, queueVars, bucket, backendUsed, unlinkFailed,
                   cur, local_input_path, local_output_path, output_filename,
                   final_output_path, raising, progVars>>

RemoveAt(s, i) == SubSeq(s, 1, i - 1) \o SubSeq(s, i + 1, Len(s))

\* One scheduled _update_progress commits: task.percentage = percentage.
\* The coroutines await their sessions independently, so any of them may
\* commit next.
UpdateProgress(i) ==
    /\ i \in 1..Len(pending)
    /\ tasks' = IF pending[i].id \in DOMAIN tasks
                THEN [tasks EXCEPT ![pending[i].id].percentage = pending[i].pct]
                ELSE tasks
    /\ applied' = IF pending[i].id \in DOMAIN tasks /\ pending[i].seq > applied[pending[i].id]
                  THEN [applied EXCEPT ![pending[i].id] = pending[i].seq]
                  ELSE applied
    /\ pending' = RemoveAt(pending, i)
    /\ UNCHANGED <<use_gcs, gcs_uploads_prefix, wrote, ret, nextId, queueVars, storeVars, runVars, lastrep, nrep>>

\* An _update_progress without its try: the exception of a failed update
\* reaches the processing call of the job it belongs to.
UpdateProgressFailPropagates(i) ==
    /\ i \in 1..Len(pending)
    /\ pending' = RemoveAt(pending, i)
    /\ wpc' = IF wpc = "process" /\ pending[i].id = cur.id THEN "except" ELSE wpc
    /\ UNCHANGED <<use_gcs, gcs_uploads_prefix, wrote, ret, dbVars, queueVars, storeVars,
                   cur, local_input_path, local_output_path, output_filename,
                   final_output_path, raising, cause, lastrep, nrep, applied>>

\* Its session raises: the exception is logged and swallowed.
UpdateProgressFail(i) ==
    /\ i \in 1..Len(pending)
    /\ pending' = RemoveAt(pending, i)
    /\ UNCHANGED <<use_gcs, gcs_uploads_prefix, wrote, ret, dbVars, queueVars, storeVars, runVars, lastrep, nrep,
                   applied>>

(***************************************************************************)
(* run(): output staging, the terminal writes and the finally clause.      *)
(***************************************************************************)
OutputKey(filename) == GCS_OUTPUTS_PREFIX \o <<SLASH>> \o filename

\* Lines 146-154 (remote: the output is uploaded) or 162 (local).
StageOutOk ==
    /\ wpc = "stage_out"
    /\ IF use_gcs
       THEN /\ bucket' = GcsSave(bucket, OutputKey(output_filename), output_data)
            /\ final_output_path' = OutputKey(output_filename)
            /\ backendUsed' = TRUE
            /\ wpc' = "cleanup"
       ELSE /\ final_output_path' = PathStr(local_output_path)
            /\ wpc' = "finish"
            /\ UNCHANGED <<bucket, backendUsed>>
    /\ UNCHANGED <<use_gcs, gcs_uploads_prefix, wrote, ret, dbVars, queueVars, files, unlinkFailed, cur,
                   local_input_path, local_output_path, output_filename,
                   raising, cause, progVars>>

\* storage_backend.save of the output raises.
StageOutFail ==
    /\ wpc = "stage_out"
    /\ use_gcs
    /\ backendUsed' = TRUE
    /\ cause' = "stage_out"
    /\ wpc' = "except"
    /\ UNCHANGED <<use_gcs, gcs_uploads_prefix, wrote, ret, dbVars, queueVars, bucket, files, unlinkFailed, cur,
                   local_input_path, local_output_path, output_filename,
                   final_output_path, raising, progVars>>

\* Lines 157-160: both local files are unlinked, outside any try.
CleanupOk ==
    /\ wpc = "cleanup"
    /\ files' = files \ {local_input_path, local_output_path}
    /\ unlinkFailed' = unlinkFailed \ {local_input_path, local_output_path}
    /\ wpc' = "finish"
    /\ UNCHANGED <<use_gcs, gcs_uploads_prefix, wrote, ret, dbVars, queueVars, bucket, backendUsed, cur, local_input_path, local_output_path, output_filename,
                   final_output_path, raising, cause, progVars>>

\* An unlink of lines 157-160 raises: the first (nothing is removed) or the
\* second (the input is already removed).
CleanupFail ==
    /\ wpc = "cleanup"
    /\ \E p \in {local_input_path, local_output_path} \cap files :
          /\ files' = IF p = local_output_path
                      THEN files \ {local_input_path}
                      ELSE files
          /\ unlinkFailed' = IF p = local_output_path
                             THEN (unlinkFailed \ {local_input_path}) \cup {p}
                             ELSE unlinkFailed \cup {p}
    /\ cause' = "cleanup"
    /\ wpc' = "except"
    /\ UNCHANGED <<use_gcs, gcs_uploads_prefix, wrote, ret, dbVars, queueVars, bucket, backendUsed, cur,
                   local_input_path, local_output_path, output_filename,
                   final_output_path, raising, progVars>>

DownloadUrl(task_id) == <<SLASH, "d", SLASH>> \o Uuid(task_id)

\* Lines 164-172.
FinishWrite ==
    /\ wpc = "finish"
    /\ tasks' = [tasks EXCEPT ![cur.id].status = "FINISHED",
                              ![cur.id].percentage = 100,
                              ![cur.id].output_path = final_output_path,
                              ![cur.id].download_url = DownloadUrl(cur.id)]
    /\ wrote' = "FINISHED"
    /\ wpc' = "finally"
    /\ UNCHANGED <<use_gcs, gcs_uploads_prefix, ret, nextId, queueVars, storeVars, cur, local_input_path,
                   local_output_path, output_filename, final_output_path,
                   raising, cause, progVars>>

\* The session of lines 164-172 raises.
FinishWriteFail ==
    /\ wpc = "finish"
    /\ cause' = "db"
    /\ wpc' = "except"
    /\ UNCHANGED <<use_gcs, gcs_uploads_prefix, wrote, ret, dbVars, queueVars, storeVars, cur, local_input_path,
                   local_output_path, output_filename, final_output_path,
                   raising, progVars>>

\* An except block that forgets the output file.
UnlinkTargetsInputOnly(inp, out, fs) == {p \in {inp} : p # NoPath /\ p \in fs}

\* The files the except block tries to unlink (lines 183 and 188).
UnlinkTargets(inp, out, fs) == {p \in {inp, out} : p # NoPath /\ p \in fs}

\* Lines 181-192: in remote mode each existing local file is unlinked inside
\* its own try; a failure is logged and the file stays.
ExceptCleanup ==
    /\ wpc = "except"
    /\ IF use_gcs
       THEN \E failed \in SUBSET UnlinkTargets(local_input_path, local_output_path, files) :
               /\ files' = files \ (UnlinkTargets(local_input_path, local_output_path, files)
                                      \ failed)
               /\ unlinkFailed' =
                      (unlinkFailed
                         \ UnlinkTargets(local_input_path, local_output_path, files))
                        \cup failed
       ELSE UNCHANGED <<files, unlinkFailed>>
    /\ wpc' = "error_write"
    /\ UNCHANGED <<use_gcs, gcs_uploads_prefix, wrote, ret, dbVars, queueVars, bucket, backendUsed, cur,
                   local_input_path, local_output_path, output_filename,
                   final_output_path, raising, cause, progVars>>

\* Lines 194-200.
ErrorWrite ==
    /\ wpc = "error_write"
    /\ tasks' = [tasks EXCEPT ![cur.id].status = "ERROR",
                              ![cur.id].percentage = 0]
    /\ wrote' = "ERROR"
    /\ wpc' = "finally"
    /\ UNCHANGED <<use_gcs, gcs_uploads_prefix, ret, nextId, queueVars, storeVars, cur, local_input_path,
                   local_output_path, output_filename, final_output_path,
                   raising, cause, progVars>>

\* The session of lines 194-200 raises: the exception leaves the except block.
ErrorWriteFail ==
    /\ wpc = "error_write"
    /\ raising' = TRUE
    /\ wpc' = "finally"
    /\ UNCHANGED <<use_gcs, gcs_uploads_prefix, wrote, ret, dbVars, queueVars, storeVars, cur, local_input_path,
                   local_output_path, output_filename, final_output_path,
                   cause, progVars>>

\* A run() that calls task_done after the try statement instead of in its
\* finally clause: an exception leaving the except block skips the call.
TaskDoneAfterTry ==
    /\ wpc = "finally"
    /\ unfinished' = IF raising THEN unfinished ELSE unfinished - 1
    /\ wpc' = IF raising THEN "halted" ELSE "get"
    /\ cur' = NoHandle
    /\ local_input_path' = NoPath
    /\ local_output_path' = NoPath
    /\ output_filename' = None
    /\ final_output_path' = None
    /\ raising' = FALSE
    /\ cause' = "none"
    /\ UNCHANGED <<use_gcs, gcs_uploads_prefix, wrote, ret, dbVars, queue, enqLog, ndeq, storeVars, progVars>>

\* Line 203: task_done.  The loop then goes back to queue.get() unless an
\* exception is propagating, which ends run().  The locals of the finished
\* iteration are dead.
Finally ==
    /\ wpc = "finally"
    /\ unfinished' = unfinished - 1
    /\ wpc' = IF raising THEN "halted" ELSE "get"
    /\ cur' = NoHandle
    /\ local_input_path' = NoPath
    /\ local_output_path' = NoPath
    /\ output_filename' = None
    /\ final_output_path' = None
    /\ raising' = FALSE
    /\ cause' = "none"
    /\ UNCHANGED <<use_gcs, gcs_uploads_prefix, wrote, ret, dbVars, queue, enqLog, ndeq, storeVars, progVars>>

\* get_output_path (lines 239-245): None when the record or its output_path
\* is missing, else Path(task.output_path).
GetOutputPath(t, task_id) ==
    IF task_id \notin DOMAIN t \/ t[task_id].output_path = None THEN NoPath
    ELSE PathOf(t[task_id].output_path)

\* storage_backend.get_signed_url: a URL naming the blob.
SignedUrl(filepath) == <<"s", ":">> \o BlobName(filepath)

\* get_download_url (lines 247-273); fails: get_signed_url raises.
GetDownloadUrl(t, gcs, task_id, fails) ==
    IF task_id \notin DOMAIN t \/ t[task_id].output_path = None THEN None
    ELSE IF gcs THEN (IF fails THEN None ELSE SignedUrl(t[task_id].output_path))
    ELSE DownloadUrl(task_id)

\* A get_task_status that builds its result without looking whether the
\* record was found.
GetTaskStatusUnchecked(t, gcs, task_id, fails) ==
    IF task_id \notin DOMAIN t THEN <<"AttributeError">>
    ELSE <<t[task_id].percentage, t[task_id].status, None>>

\* get_task_status (lines 216-237): None, or WMRemoveResults as
\* <<percentage, status, download_url>>.
GetTaskStatus(t, gcs, task_id, fails) ==
    IF task_id \notin DOMAIN t THEN None
    ELSE <<t[task_id].percentage,
           t[task_id].status,
           IF t[task_id].status = "FINISHED" /\ t[task_id].output_path \notin {None, <<>>}
           THEN (IF gcs THEN GetDownloadUrl(t, gcs, task_id, fails)
                 ELSE t[task_id].download_url)
           ELSE None>>

\* Job ids a caller may ask about: those of create_task and one more.
LookupIds == 1..(MaxJobs + 1)

CallGetTaskStatus(task_id, fails) ==
    /\ ret' = [op |-> "get_task_status", arg |-> Uuid(task_id), data |-> None,
               val |-> GetTaskStatus(tasks, use_gcs, task_id, fails)]
    /\ UNCHANGED <<use_gcs, gcs_uploads_prefix, wrote, dbVars, queueVars, storeVars, runVars, progVars>>

\* The returned Path is recorded as its string.
CallGetOutputPath(task_id) ==
    /\ ret' = [op |-> "get_output_path", arg |-> Uuid(task_id), data |-> None,
               val |-> IF GetOutputPath(tasks, task_id) = NoPath THEN None
                       ELSE PathStr(GetOutputPath(tasks, task_id))]
    /\ UNCHANGED <<use_gcs, gcs_uploads_prefix, wrote, dbVars, queueVars, storeVars, runVars, progVars>>

CallGetDownloadUrl(task_id, fails) ==
    /\ ret' = [op |-> "get_download_url", arg |-> Uuid(task_id), data |-> None,
               val |-> GetDownloadUrl(tasks, use_gcs, task_id, fails)]
    /\ UNCHANGED <<use_gcs, gcs_uploads_prefix, wrote, dbVars, queueVars, storeVars, runVars, progVars>>

\* Callers of the worker: create_task, queue_task, mark_task_error.
ClientNext ==
    \/ CreateTask
    \/ \E j \in TaskIds : \E vp \in VideoPaths(j) : QueueTask(j, vp)
    \/ \E j \in TaskIds : MarkTaskError(j)

\* The run() loop and the processing call it awaits.
WorkerNext ==
    \/ WorkerGet
    \/ StageInOk
    \/ StageInFail
    \/ StartWrite
    \/ StartWriteFail
    \/ ProcReturn
    \/ ProcRaise
    \/ StageOutOk
    \/ StageOutFail
    \/ CleanupOk
    \/ CleanupFail
    \/ FinishWrite
    \/ FinishWriteFail
    \/ ExceptCleanup
    \/ ErrorWrite
    \/ ErrorWriteFail
    \/ Finally

\* The progress callback and the coroutines it schedules.
ProgressNext ==
    \/ \E p \in Percents : Report(p)
    \/ \E i \in 1..Len(pending) : UpdateProgress(i)
    \/ \E i \in 1..Len(pending) : UpdateProgressFail(i)

Next == ClientNext \/ WorkerNext \/ ProgressNext

Spec == Init /\ [][Next]_vars

\* The behaviours in which the processing operation never calls its progress
\* callback.  Progress updates write task.percentage and nothing else, so the
\* queue, the paths and the files evolve here exactly as under Spec.
QuietNext == ClientNext \/ WorkerNext

QuietSpec == Init /\ [][QuietNext]_vars

\* The behaviours of a single job: created once, then queued, failed and run
\* in any order, with progress reports.
SoloNext ==
    \/ nextId = 1 /\ CreateTask
    \/ \E vp \in VideoPaths(1) : QueueTask(1, vp)
    \/ MarkTaskError(1)
    \/ WorkerNext
    \/ ProgressNext

SoloSpec == Init /\ [][SoloNext]_vars

\* The same behaviours under every upload prefix.
ConfigSpec == ConfigInit /\ [][QuietNext]_vars

\* The lookups of the HTTP handlers.
LookupNext ==
    \/ \E j \in LookupIds : \E fails \in BOOLEAN : CallGetTaskStatus(j, fails)
    \/ \E j \in LookupIds : CallGetOutputPath(j)
    \/ \E j \in LookupIds : \E fails \in BOOLEAN : CallGetDownloadUrl(j, fails)

\* Callers creating, queuing, failing and looking up jobs in any order while
\* the worker runs.
LookupSpec == Init /\ [][QuietNext \/ LookupNext]_vars

\* The same callers while run() is not scheduled.
CallerSpec == Init /\ [][ClientNext \/ LookupNext]_vars

(***************************************************************************)
(* Properties.                                                             *)
(***************************************************************************)
Handle(e) == [id |-> e.id, path |-> e.path]

\* How many times queue_task has enqueued job j.
TimesQueued(j) == Cardinality({i \in 1..Len(enqLog) : enqLog[i].id = j})

\* The worker has dequeued a handle of job j.
Dequeued(j) == \E i \in 1..ndeq : i <= Len(enqLog) /\ enqLog[i].id = j

\* The local files run() makes for job j: the temporary input and the output.
JobLocalFiles(j) ==
    LET hs == {[id |-> j, path |-> StoragePath(use_gcs, j, vp)] : vp \in VideoPaths(j)}
    IN  {TempInputPath(h) : h \in hs}
          \cup {PathJoin(output_dir, OutputFilename(h, ts)) : h \in hs, ts \in Timestamps}

\* C1: in every reachable state a job's percentage is 100 exactly when its
\* status is FINISHED.
C1_HundredIffFinished ==
    \A j \in DOMAIN tasks :
        (tasks[j].percentage = 100) <=> (tasks[j].status = "FINISHED")

\* C2: in every reachable state a job's output_path is non-null exactly when
\* its status is FINISHED.
C2_OutputIffFinished ==
    \A j \in DOMAIN tasks :
        (tasks[j].output_path # None) <=> (tasks[j].status = "FINISHED")

\* C3: in every reachable state a job whose status is UPLOADING or ERROR has
\* percentage 0.
C3_ZeroWhenUploadingOrError ==
    \A j \in DOMAIN tasks :
        tasks[j].status \in {"UPLOADING", "ERROR"} => tasks[j].percentage = 0

\* C4: FINISHED and ERROR are terminal: no step changes the status of a job
\* that is FINISHED or ERROR.
C4_TerminalIsFinal ==
    [][\A j \in DOMAIN tasks :
           tasks[j].status \in Terminal => tasks'[j].status = tasks[j].status]_vars

\* C5: when input staging, the processing operation or output staging raised
\* for a dequeued job, the worker leaves the job's record with status ERROR,
\* percentage 0 and output_path null.  Stated for a job queued once, at the
\* end of an except block whose own record update committed.
C5_FailedJobEndsError ==
    (/\ wpc = "finally"
     /\ ~raising
     /\ cause \in {"stage_in", "process", "stage_out"}
     /\ TimesQueued(cur.id) = 1)
        => /\ tasks[cur.id].status = "ERROR"
           /\ tasks[cur.id].percentage = 0
           /\ tasks[cur.id].output_path = None

\* C6: a failure inside the per-job scope never ends the worker loop.
C6_WorkerLoopNeverEnds == wpc # "halted"

\* C7: the queue is FIFO and delivers each entry once: the k-th handle the
\* worker dequeues is the k-th handle queue_task enqueued, and the queue holds
\* exactly the handles not yet dequeued, in the order they were enqueued.
C7_FifoDeliversOnce ==
    /\ ndeq <= Len(enqLog)
    /\ queue = [i \in 1..(Len(enqLog) - ndeq) |-> Handle(enqLog[ndeq + i])]
    /\ wpc \notin {"get", "halted"} => (ndeq >= 1 /\ cur = Handle(enqLog[ndeq]))

C7_Witness ==
    /\ ndeq = 2
    /\ wpc = "stage_in"
    /\ enqLog[1].id # enqLog[2].id

\* The job in flight is between the start-of-run write and its terminal write.
InRun == wpc \in {"process", "stage_out", "cleanup", "finish"}

\* C8: within one PROCESSING run, with non-decreasing reports, no progress
\* update lowers the percentage stored in the record of the job in flight.
C8_ProgressNeverDecreases ==
    [][(InRun /\ Len(pending') < Len(pending))
          => tasks'[cur.id].percentage >= tasks[cur.id].percentage]_vars

\* C9 as stated: in remote mode, whenever a dequeued job is FINISHED or ERROR,
\* none of the local files the worker made for it exists.
C9_NoLocalFilesWhenTerminal ==
    use_gcs =>
        \A j \in DOMAIN tasks :
            (Dequeued(j) /\ tasks[j].status \in Terminal)
                => JobLocalFiles(j) \cap files = {}

\* C9 as amended: in remote mode, once the worker has made its terminal write
\* for a job, and as long as it is not running that job again, a local file
\* it made for the job exists only if the last attempt to delete it raised.
C9_LocalFilesGoneUnlessUnlinkRaised ==
    use_gcs =>
        \A f \in files \ unlinkFailed :
            \A j \in TaskIds :
                (cur.id # j \/ wpc = "finally") => f \notin JobLocalFiles(j)

C9_Witness ==
    /\ use_gcs
    /\ wpc = "finally"
    /\ ~raising
    /\ cause = "process"
    /\ tasks[cur.id].status = "ERROR"
    /\ JobLocalFiles(cur.id) \cap files = {}

\* C10: in local mode queue_task records and enqueues exactly the path it was
\* given and calls no storage backend, the worker hands that path to the
\* processing operation, and get_output_path of a job that succeeded is a
\* path directly under the output directory.
C10_LocalStagingNoOp ==
    ~use_gcs =>
        /\ ~backendUsed
        /\ bucket = EmptyBucket
        /\ \A i \in 1..Len(enqLog) : enqLog[i].path = enqLog[i].arg
        /\ \A j \in DOMAIN tasks :
              \A i \in 1..Len(enqLog) :
                  (enqLog[i].id = j /\ \A k \in (i + 1)..Len(enqLog) : enqLog[k].id # j)
                      => tasks[j].video_path = PathStr(enqLog[i].arg)
        /\ wpc \in {"start", "process"}
              => (local_input_path = cur.path /\ local_input_path = enqLog[ndeq].arg)
        /\ \A j \in DOMAIN tasks :
              /\ tasks[j].status = "FINISHED" => GetOutputPath(tasks, j) # NoPath
              /\ GetOutputPath(tasks, j) # NoPath
                    => /\ PathParent(GetOutputPath(tasks, j)) = output_dir
                       /\ PathName(GetOutputPath(tasks, j)) # <<>>

C10_Witness ==
    /\ ~use_gcs
    /\ \E j \in DOMAIN tasks :
          /\ tasks[j].status = "FINISHED"
          /\ PathParent(GetOutputPath(tasks, j)) = output_dir
          /\ tasks[j].video_path = PathStr(enqLog[1].arg)

\* C11: remote storage round trip.  A read right after save(R, B) returns B
\* and exists(R) is then true, whatever was saved before; right after
\* delete(R), exists(R) is false and read(R) raises not-found; delete of an
\* absent reference returns normally and leaves the bucket as it was.
C11_StorageRoundTrip ==
    [][\A R \in Refs :
          /\ (ret.op = "save" /\ ret.arg = R)
                => /\ BackendRead(R) => ret'.val = ret.data
                   /\ BackendExists(R) => ret'.val = True
          /\ (ret.op = "delete" /\ ret.arg = R)
                => /\ BackendRead(R) => ret'.val = NotFound
                   /\ BackendExists(R) => ret'.val = False
          /\ (BackendDelete(R) /\ ~GcsExists(bucket, R))
                => (bucket' = bucket /\ ret'.val = None)]_vars

C11_Witness ==
    /\ ret = [op |-> "read", arg |-> <<SLASH, "k">>, data |-> None, val |-> <<"1">>]
    /\ DOMAIN bucket = {<<"k">>}

\* C12: a lookup of a job id that has no record returns None (no exception,
\* none of the four states) from get_task_status, get_output_path and
\* get_download_url, and changes no job record and not the queue.
C12_UnknownIdIsNone ==
    [][\A j \in LookupIds :
          (/\ j \notin DOMAIN tasks
           /\ \E fails \in BOOLEAN :
                 \/ CallGetTaskStatus(j, fails)
                 \/ CallGetOutputPath(j)
                 \/ CallGetDownloadUrl(j, fails))
              => (ret'.val = None /\ tasks' = tasks /\ queue' = queue)]_vars

C12_Witness ==
    /\ ret.op = "get_task_status"
    /\ ret.val = None
    /\ ret.arg = Uuid(2)
    /\ DOMAIN tasks = {1}
    /\ tasks[1].status = "PROCESSING"

\* C17: a progress update that fails is swallowed.  The failing step leaves
\* the run as it was (the processing call goes on), leaves every record as it
\* was, so that status and output_path are what they would be had the update
\* been written; and a run ends with the FINISHED write exactly when none of
\* its own steps raised, however many updates failed.
C17_ProgressFailureSwallowed ==
    [][/\ \A i \in 1..Len(pending) :
             UpdateProgressFail(i)
                => /\ runVars' = runVars
                   /\ tasks' = tasks
                   /\ \A j \in DOMAIN tasks :
                         LET written == [tasks EXCEPT ![pending[i].id].percentage =
                                                          pending[i].pct]
                         IN  /\ tasks'[j].status = written[j].status
                             /\ tasks'[j].output_path = written[j].output_path
       /\ (wpc' = "finally" /\ ~raising')
             => (wrote' = "FINISHED" <=> cause' = "none")]_vars

C17_Witness ==
    /\ wpc = "finally"
    /\ wrote = "FINISHED"
    /\ nrep = 2
    /\ pending = <<>>
    /\ applied[cur.id] = 0
    /\ tasks[cur.id].status = "FINISHED"

\* The worker has made its terminal write for every run of job j: it is in the
\* finally clause of j's run after a committed write, or it has dequeued
\* every handle of j and gone on.
TerminalWritten(j) ==
    \/ cur.id = j /\ wpc = "finally" /\ ~raising
    \/ /\ cur.id # j
       /\ wpc # "halted"
       /\ Dequeued(j)
       /\ \A k \in 1..Len(queue) : queue[k].id # j

\* C13: after the worker's terminal write for a job, no progress update for
\* that job is applied to its record.
C13_NoProgressAfterTerminalWrite ==
    [][\A i \in 1..Len(pending) :
          ~(TerminalWritten(pending[i].id) /\ UpdateProgress(i))]_vars

\* C14: progress values are applied in callback order: an update is never
\* written to a job's record after the update of a later callback for the
\* same job has been written.
C14_ProgressAppliedInCallOrder ==
    [][\A i \in 1..Len(pending) :
          UpdateProgress(i) => pending[i].seq > applied[pending[i].id]]_vars

\* task_done calls made so far: the queue counts one unfinished entry per put
\* and one less per task_done.
TaskDoneCalls == Len(enqLog) - unfinished

\* C15: task_done is called exactly once for every dequeue, whatever the
\* outcome of the job, and never without a dequeue: the calls never exceed the
\* dequeues, they equal them whenever the worker is between jobs or has
\* stopped, and they are one short while a job is in flight.
C15_TaskDoneOncePerDequeue ==
    /\ TaskDoneCalls <= ndeq
    /\ unfinished >= 0
    /\ wpc \in {"get", "halted"} => TaskDoneCalls = ndeq
    /\ wpc \notin {"get", "halted"} => TaskDoneCalls = ndeq - 1

C15_Witness ==
    /\ wpc = "halted"
    /\ ndeq = 1
    /\ Len(enqLog) = 2
    /\ unfinished = 1

\* Handles dequeued and not yet released by task_done.
InFlight == ndeq - TaskDoneCalls

\* C16: at most one job is in flight.  The worker dequeues only when every
\* handle it dequeued before has been released by task_done and the latest
\* of them got its terminal write; and the processing call is started only
\* for the one job in flight, after the previous call has ended.
C16_OneJobInFlight ==
    [][/\ ndeq' # ndeq
          => /\ ndeq' = ndeq + 1
             /\ InFlight = 0
             /\ ndeq = 0 \/ wrote \in Terminal
             /\ wpc # "process"
       /\ (wpc' = "process" /\ wpc # "process")
          => /\ InFlight = 1
             /\ wrote' = "start"
             /\ cur = Handle(enqLog[ndeq])]_vars

C16_Witness ==
    /\ ndeq = 2
    /\ wpc = "process"
    /\ enqLog[1].id # enqLog[2].id
    /\ tasks[enqLog[1].id].status = "FINISHED"
    /\ unfinished = 1

\* C18: a failure to delete a local temporary file does not change the
\* terminal status of the job: in remote mode a run whose processing and
\* output upload succeeded, and whose record updates did not fail, ends with
\* the FINISHED write.
C18_CleanupFailureNotPropagated ==
    (/\ use_gcs
     /\ wpc = "finally"
     /\ ~raising
     /\ final_output_path # None
     /\ cause # "db")
        => wrote = "FINISHED"

\* C19: every handle in the queue refers to an existing job record whose
\* status is PROCESSING and whose video_path is the queued path, and no job
\* id is in the queue twice.
C19_QueuedHandlesAreProcessing ==
    \A k \in 1..Len(queue) :
        /\ queue[k].id \in DOMAIN tasks
        /\ tasks[queue[k].id].status = "PROCESSING"
        /\ tasks[queue[k].id].video_path = PathStr(queue[k].path)
        /\ \A m \in 1..Len(queue) : queue[m].id = queue[k].id => m = k

\* C20: in remote mode the key the worker reads the input from is the key
\* queue_task saved the upload under, so the input of a dequeued job is found:
\* when the worker is about to download, the blob named by the handle's path
\* is the blob of the upload key and it exists.
C20_UploadKeyRoundTrip ==
    (use_gcs /\ wpc = "stage_in")
        => /\ BlobName(PathStr(cur.path)) = BlobName(UploadKey(cur.id, enqLog[ndeq].arg))
           /\ GcsExists(bucket, PathStr(cur.path))

====
